---------------------------- MODULE Spec2Model ----------------------------
(***************************************************************************)
(* Linear regression with gluon (P02-C02-linear-regression-gluon.ipynb).   *)
(*                                                                         *)
(* The notebook is a straight-line script: build the dataset, wrap it in   *)
(* an NDArrayIter, define and initialize a one-layer Dense network, define *)
(* the L2 loss and the SGD trainer, then run the training loop.  Each      *)
(* statement of the script is one action; pc names the statement that      *)
(* runs next.                                                              *)
(*                                                                         *)
(* Numbers.  Labels, parameters and predictions are held on the grid       *)
(* 1/Scale, features on the unit grid, losses on the grid 1/LossScale.     *)
(* Every division rounds to the nearest grid point (Div), the way the      *)
(* floating-point operations of the tensor library round.                  *)
(*                                                                         *)
(* Sizes.  The notebook has 10000 rows, hence 2500 batches of 4 per pass,  *)
(* and prints every 500 batches.  NumBatches and PrintEvery stand for the  *)
(* 2500 and the 500; batch_size and epochs keep the notebook's values.     *)
(***************************************************************************)
EXTENDS Integers, Sequences, FiniteSets

VARIABLES
    X,            \* features, one pair per row            (cell 5)
    y,            \* labels, one per row                   (cell 5)
    idx,          \* train_data: the shuffled row order
    cursor,       \* train_data: NDArrayIter's cursor
    defined,      \* names bound so far in the notebook's namespace
    initialized,  \* net's parameters have been initialized
    w,            \* dense weight (2 elements)
    b,            \* dense bias
    e,            \* epoch index of the outer for
    i,            \* batch index of the inner for
    count,        \* enumerate()'s counter
    data,         \* current batch: features
    label,        \* current batch: labels
    output,       \* net(data)
    mse,          \* loss(output, label), one value per example
    grad,         \* gradients written by mse.backward()
    moving_loss,  \* moving average of the batch loss
    printed,      \* lines written to stdout: <<e, i, moving_loss>>
    yielded,      \* history: row numbers of the batches yielded since reset
    steps,        \* history: number of trainer.step calls so far
    probe,        \* result of an interactive call of net (cell 12's text)
    pc            \* the statement that runs next

vars ==
    <<X, y, idx, cursor, defined, initialized, w, b, e, i, count, data, label,
      output, mse, grad, moving_loss, printed, yielded, steps, probe, pc>>

---------------------------------------------------------------------------
(* Sizes and program constants *)

NumBatches ==
    3

PrintEvery ==
    2

Scale ==
    100

NumSeeds ==
    2

NumOffsets ==
    2

batch_size ==
    4

epochs ==
    2

NumData ==
    batch_size * NumBatches

LossScale ==
    2 * Scale * Scale

---------------------------------------------------------------------------
(* Arithmetic *)

\* num / den rounded to the nearest integer (den > 0), halves rounded up
Div(num, den) ==
    (2 * num + den) \div (2 * den)

RECURSIVE SumSeq(_)
SumSeq(s) ==
    IF s = <<>> THEN 0 ELSE Head(s) + SumSeq(Tail(s))

---------------------------------------------------------------------------
(* Cell 5: the synthetic dataset *)

FeatureSamples ==
    <<-1, 1, 0, 2>>

NoiseSamples ==
    <<0, Scale, -2 * Scale, -Scale>>

\* nd.random_normal(shape=(10000,2)): the row's two draws under a seed
RandomFeatures(seed, r) ==
    << FeatureSamples[((seed + r + (r \div 4)) % 4) + 1],
       FeatureSamples[((seed * 3 + r * r + (r \div 2)) % 4) + 1] >>

\* nd.random_normal(shape=(10000,)): the row's noise draw under a seed
RandomNoise(seed, r) ==
    NoiseSamples[((seed * 2 + r * 3 + (r \div 3)) % 4) + 1]

\* y = 2 * X[:,0] - 3.4 * X[:,1] + 4.2 + .01 * noise
TrueLabel(x, noise) ==
    2 * Scale * x[1] - Div(34 * Scale * x[2], 10) + Div(42 * Scale, 10)
        + Div(noise, 100)

---------------------------------------------------------------------------
(* Cell 7: mx.io.NDArrayIter(X, y, batch_size, shuffle=True) *)

\* strides coprime to NumData = 4 * NumBatches
Strides ==
    {1, NumData \div 2 - 1, NumData \div 2 + 1, NumData - 1}

\* the shuffles considered: row k of the shuffled data is row
\* ((stride * (k-1) + offset) mod NumData) + 1 of the dataset
ShuffleOrders ==
    { [k \in 1..NumData |-> ((s * (k - 1) + o) % NumData) + 1] :
        s \in Strides, o \in 0..(NumOffsets - 1) }

\* NDArrayIter.iter_next: the cursor moves on by one batch
IterNextOverlap(c) ==
    c + batch_size - 1

IterNext(c) ==
    c + batch_size

\* NDArrayIter.iter_next: a batch is left while the cursor is inside the data
HasBatch(c) ==
    c < NumData

\* NDArrayIter.getdata/getlabel: the rows from the cursor on, wrapped round
\* to the first rows when fewer than batch_size are left (last_batch 'pad')
BatchRows(c) ==
    [k \in 1..batch_size |-> idx[((c + k - 1) % NumData) + 1]]

---------------------------------------------------------------------------
(* Cells 9-18: model, loss, trainer *)

\* net(data) for net = Sequential(Dense(1, in_units=2)): an uninitialized
\* parameter raises RuntimeError, else yhat = data . w + b
netUnchecked(d) ==
    [error |-> FALSE,
     yhat |-> [k \in 1..Len(d) |-> d[k][1] * w[1] + d[k][2] * w[2] + b]]

net(d) ==
    IF ~initialized
    THEN [error |-> TRUE, yhat |-> <<>>]
    ELSE [error |-> FALSE,
          yhat |-> [k \in 1..Len(d) |-> d[k][1] * w[1] + d[k][2] * w[2] + b]]

\* gluon.loss.L2Loss: one half of the squared difference, per example.
\* p and l are on the grid 1/Scale, the result on the grid 1/LossScale.
L2LossUnsquared(p, l) ==
    ((LossScale \div (Scale * Scale)) * (p - l) * Scale) \div 2

L2Loss(p, l) ==
    ((LossScale \div (Scale * Scale)) * (p - l) * (p - l)) \div 2

\* mse.backward(): gradient of the sum of the per-example losses
Backward(d, out, lab) ==
    [w |-> << SumSeq([k \in 1..Len(d) |-> (out[k] - lab[k]) * d[k][1]]),
              SumSeq([k \in 1..Len(d) |-> (out[k] - lab[k]) * d[k][2]]) >>,
     b |-> SumSeq([k \in 1..Len(d) |-> out[k] - lab[k]])]

\* trainer.step(batch_size) with 'sgd', learning_rate 0.1:
\* param -= learning_rate * grad / batch_size
SGDNoRescale(p, g, n) ==
    p - Div(g, 10)

SGD(p, g, n) ==
    p - Div(g, 10 * n)

\* moving_loss = .99 * moving_loss + .01 * nd.sum(mse).asscalar()
MovingAverageOfMean(ml, losses) ==
    Div(99 * ml + SumSeq(losses) \div Len(losses), 100)

MovingAverage(ml, losses) ==
    Div(99 * ml + SumSeq(losses), 100)

\* if i % 500 == 0
DueOneBased(k) ==
    (k + 1) % PrintEvery = 0

Due(k) ==
    k % PrintEvery = 0

---------------------------------------------------------------------------
(* Program order *)

SetupStmts ==
    {"X_y", "train_data", "net", "initialize", "loss", "trainer"}

BodyStmts ==
    {"forward", "mse", "backward", "step", "moving_loss", "print"}

\* lines 244-256: the statement after each statement of the loop body
AfterSwapped(s) ==
    CASE s = "forward" -> "mse"
      [] s = "mse" -> "backward"
      [] s = "backward" -> "moving_loss"
      [] s = "moving_loss" -> "step"
      [] s = "step" -> "print"
      [] s = "print" -> "for_i"

After(s) ==
    CASE s = "forward" -> "mse"
      [] s = "mse" -> "backward"
      [] s = "backward" -> "step"
      [] s = "step" -> "moving_loss"
      [] s = "moving_loss" -> "print"
      [] s = "print" -> "for_i"

\* for e in range(epochs)
MoreEpochsOffByOne(k) ==
    k + 1 < epochs - 1

MoreEpochs(k) ==
    k + 1 < epochs

---------------------------------------------------------------------------
(* Initial state: an empty namespace *)

Init ==
    /\ X = <<>>
    /\ y = <<>>
    /\ idx = <<>>
    /\ cursor = 0
    /\ defined = {}
    /\ initialized = FALSE
    /\ w = <<0, 0>>
    /\ b = 0
    /\ e = -1
    /\ i = -1
    /\ count = 0
    /\ data = <<>>
    /\ label = <<>>
    /\ output = <<>>
    /\ mse = <<>>
    /\ grad = [w |-> <<0, 0>>, b |-> 0]
    /\ moving_loss = 0
    /\ printed = <<>>
    /\ yielded = <<>>
    /\ steps = 0
    /\ probe = [called |-> FALSE, init |-> FALSE, error |-> FALSE, yhat |-> <<>>]
    /\ pc = "X_y"

---------------------------------------------------------------------------
(* Cells 5-18 *)

BuildDataset ==
    /\ pc = "X_y"
    /\ \E seed \in 1..NumSeeds :
         /\ X' = [r \in 1..NumData |-> RandomFeatures(seed, r)]
         /\ y' = [r \in 1..NumData |->
                    TrueLabel(RandomFeatures(seed, r), RandomNoise(seed, r))]
    /\ defined' = defined \cup {"X", "y"}
    /\ pc' = "train_data"
    /\ UNCHANGED <<idx, cursor, initialized, w, b, e, i, count, data, label,
                   output, mse, grad, moving_loss, printed, yielded, steps, probe>>

LoadIterator ==
    /\ pc = "train_data"
    /\ idx' \in ShuffleOrders
    /\ cursor' = -batch_size
    /\ defined' = defined \cup {"batch_size", "train_data"}
    /\ pc' = "net"
    /\ UNCHANGED <<X, y, initialized, w, b, e, i, count, data, label, output,
                   mse, grad, moving_loss, printed, yielded, steps, probe>>

DefineModel ==
    /\ pc = "net"
    /\ defined' = defined \cup {"net"}
    /\ pc' = "initialize"
    /\ UNCHANGED <<X, y, idx, cursor, initialized, w, b, e, i, count, data, label,
                   output, mse, grad, moving_loss, printed, yielded, steps, probe>>

\* Normal(sigma=1.) draws the weight; the Dense bias keeps its own 'zeros'
InitializeParams ==
    /\ pc = "initialize"
    /\ \E w1 \in {-Scale, Scale}, w2 \in {-Scale, Scale} : w' = <<w1, w2>>
    /\ b' = 0
    /\ initialized' = TRUE
    /\ pc' = "loss"
    /\ UNCHANGED <<X, y, idx, cursor, defined, e, i, count, data, label, output,
                   mse, grad, moving_loss, printed, yielded, steps, probe>>

DefineLoss ==
    /\ pc = "loss"
    /\ defined' = defined \cup {"loss"}
    /\ pc' = "trainer"
    /\ UNCHANGED <<X, y, idx, cursor, initialized, w, b, e, i, count, data, label,
                   output, mse, grad, moving_loss, printed, yielded, steps, probe>>

DefineTrainer ==
    /\ pc = "trainer"
    /\ defined' = defined \cup {"trainer"}
    /\ pc' = "for_e"
    /\ UNCHANGED <<X, y, idx, cursor, initialized, w, b, e, i, count, data, label,
                   output, mse, grad, moving_loss, printed, yielded, steps, probe>>

---------------------------------------------------------------------------
(* Cell 20: the training loop *)

\* for e in range(epochs):
ForEpoch ==
    /\ pc = "for_e"
    /\ IF MoreEpochs(e)
       THEN /\ e' = e + 1
            /\ defined' = defined \cup {"epochs", "e"}
            /\ pc' = "moving_loss_0"
       ELSE /\ pc' = "done"
            /\ UNCHANGED <<e, defined>>
    /\ UNCHANGED <<X, y, idx, cursor, initialized, w, b, i, count, data, label,
                   output, mse, grad, moving_loss, printed, yielded, steps, probe>>

\* moving_loss = 0.
ZeroMovingLossOnce ==
    /\ pc = "moving_loss_0"
    /\ moving_loss' = IF e = 0 THEN 0 ELSE moving_loss
    /\ defined' = defined \cup {"moving_loss"}
    /\ pc' = "reset"
    /\ UNCHANGED <<X, y, idx, cursor, initialized, w, b, e, i, count, data, label,
                   output, mse, grad, printed, yielded, steps, probe>>

ZeroMovingLoss ==
    /\ pc = "moving_loss_0"
    /\ moving_loss' = 0
    /\ defined' = defined \cup {"moving_loss"}
    /\ pc' = "reset"
    /\ UNCHANGED <<X, y, idx, cursor, initialized, w, b, e, i, count, data, label,
                   output, mse, grad, printed, yielded, steps, probe>>

\* train_data.reset(): the cursor goes back before the first batch; the
\* library may or may not draw a new shuffle here, depending on its version
ResetShufflingInPlace ==
    /\ pc = "reset"
    /\ cursor' = -batch_size
    /\ idx' \in ShuffleOrders
    /\ X' = [k \in 1..NumData |-> X[idx'[k]]]
    /\ y' = [k \in 1..NumData |-> y[idx'[k]]]
    /\ yielded' = <<>>
    /\ pc' = "enumerate"
    /\ UNCHANGED <<defined, initialized, w, b, e, i, count, data, label,
                   output, mse, grad, moving_loss, printed, steps, probe>>

Reset ==
    /\ pc = "reset"
    /\ cursor' = -batch_size
    /\ idx' \in ShuffleOrders
    /\ yielded' = <<>>
    /\ pc' = "enumerate"
    /\ UNCHANGED <<X, y, defined, initialized, w, b, e, i, count, data, label,
                   output, mse, grad, moving_loss, printed, steps, probe>>

\* enumerate(train_data)
Enumerate ==
    /\ pc = "enumerate"
    /\ count' = 0
    /\ pc' = "for_i"
    /\ UNCHANGED <<X, y, idx, cursor, defined, initialized, w, b, e, i, data, label,
                   output, mse, grad, moving_loss, printed, yielded, steps, probe>>

\* for i, batch in enumerate(train_data): data = ...; label = ...
Fetch ==
    /\ pc = "for_i"
    /\ cursor' = IterNext(cursor)
    /\ IF HasBatch(IterNext(cursor))
       THEN /\ i' = count
            /\ count' = count + 1
            /\ data' = [k \in 1..batch_size |-> X[BatchRows(IterNext(cursor))[k]]]
            /\ label' = [k \in 1..batch_size |-> y[BatchRows(IterNext(cursor))[k]]]
            /\ yielded' = Append(yielded, BatchRows(IterNext(cursor)))
            /\ defined' = defined \cup {"i", "batch", "data", "label"}
            /\ pc' = "forward"
       ELSE /\ pc' = "for_e"
            /\ UNCHANGED <<i, count, data, label, yielded, defined>>
    /\ UNCHANGED <<X, y, idx, initialized, w, b, e, output, mse, grad,
                   moving_loss, printed, steps, probe>>

\* output = net(data)
Forward ==
    /\ pc = "forward"
    /\ IF net(data).error
       THEN /\ pc' = "RuntimeError"
            /\ UNCHANGED <<output, defined>>
       ELSE /\ output' = net(data).yhat
            /\ defined' = defined \cup {"output"}
            /\ pc' = After(pc)
    /\ UNCHANGED <<X, y, idx, cursor, initialized, w, b, e, i, count, data, label,
                   mse, grad, moving_loss, printed, yielded, steps, probe>>

\* mse = loss(output, label)
Loss ==
    /\ pc = "mse"
    /\ mse' = [k \in 1..Len(output) |-> L2Loss(output[k], label[k])]
    /\ defined' = defined \cup {"mse"}
    /\ pc' = After(pc)
    /\ UNCHANGED <<X, y, idx, cursor, initialized, w, b, e, i, count, data, label,
                   output, grad, moving_loss, printed, yielded, steps, probe>>

\* mse.backward()
ComputeGradients ==
    /\ pc = "backward"
    /\ grad' = Backward(data, output, label)
    /\ pc' = After(pc)
    /\ UNCHANGED <<X, y, idx, cursor, defined, initialized, w, b, e, i, count, data,
                   label, output, mse, moving_loss, printed, yielded, steps, probe>>

\* trainer.step(data.shape[0])
TrainerStep ==
    /\ pc = "step"
    /\ w' = [j \in 1..2 |-> SGD(w[j], grad.w[j], Len(data))]
    /\ b' = SGD(b, grad.b, Len(data))
    /\ steps' = steps + 1
    /\ pc' = After(pc)
    /\ UNCHANGED <<X, y, idx, cursor, defined, initialized, e, i, count, data, label,
                   output, mse, grad, moving_loss, printed, yielded, probe>>

\* moving_loss = .99 * moving_loss + .01 * nd.sum(mse).asscalar()
UpdateMovingLoss ==
    /\ pc = "moving_loss"
    /\ moving_loss' = MovingAverage(moving_loss, mse)
    /\ pc' = After(pc)
    /\ UNCHANGED <<X, y, idx, cursor, defined, initialized, w, b, e, i, count, data,
                   label, output, mse, grad, printed, yielded, steps, probe>>

\* if i % 500 == 0: print(...)
PrintProgress ==
    /\ pc = "print"
    /\ printed' = IF Due(i) THEN Append(printed, <<e, i, moving_loss>>) ELSE printed
    /\ pc' = After(pc)
    /\ UNCHANGED <<X, y, idx, cursor, defined, initialized, w, b, e, i, count, data,
                   label, output, mse, grad, moving_loss, yielded, steps, probe>>

---------------------------------------------------------------------------
(* Cell 12's text: net(nd.array([[0,1]])) typed between two cells *)

TryNet ==
    /\ pc \in SetupStmts \cup {"for_e"}
    /\ "net" \in defined
    /\ e = -1
    /\ \E x \in {<<0, 1>>, <<1, 0>>} :
         probe' = [called |-> TRUE, init |-> initialized,
                   error |-> net(<<x>>).error, yhat |-> net(<<x>>).yhat]
    /\ UNCHANGED <<X, y, idx, cursor, defined, initialized, w, b, e, i, count, data,
                   label, output, mse, grad, moving_loss, printed, yielded, steps, pc>>

---------------------------------------------------------------------------
(* Specifications *)

Next ==
    \/ BuildDataset
    \/ LoadIterator
    \/ DefineModel
    \/ InitializeParams
    \/ DefineLoss
    \/ DefineTrainer
    \/ ForEpoch
    \/ ZeroMovingLoss
    \/ Reset
    \/ Enumerate
    \/ Fetch
    \/ Forward
    \/ Loss
    \/ ComputeGradients
    \/ TrainerStep
    \/ UpdateMovingLoss
    \/ PrintProgress

Spec ==
    Init /\ [][Next]_vars

\* the script runs on: a single thread with nothing to wait for
FairSpec ==
    Init /\ [][Next]_vars /\ WF_vars(Next)

NextProbe ==
    \/ Next
    \/ TryNet

SpecProbe ==
    Init /\ [][NextProbe]_vars

---------------------------------------------------------------------------
(* Properties *)

LoopStmts ==
    {"for_e", "moving_loss_0", "reset", "enumerate", "for_i"} \cup BodyStmts

\* how often row r has been yielded since the last reset
Occurrences(r) ==
    Cardinality({ p \in (1..Len(yielded)) \X (1..batch_size) :
                    yielded[p[1]][p[2]] = r })

\* the pass is over: the inner for has run out of batches
PassOver ==
    pc \in {"for_e", "done"} /\ e >= 0

\* C1: in every pass, from a reset to exhaustion and under every shuffle
\* order, no row is yielded twice, at exhaustion every row has been yielded
\* once, in NumData / batch_size batches of batch_size rows, and every
\* feature row of a batch is paired with the label of the same row.
ExactlyOnceCoverage ==
    /\ \A r \in 1..NumData : Occurrences(r) <= 1
    /\ PassOver =>
         /\ \A r \in 1..NumData : Occurrences(r) = 1
         /\ Len(yielded) = NumData \div batch_size
         /\ Len(yielded) = NumBatches
    /\ pc \in BodyStmts =>
         /\ Len(yielded) = i + 1
         /\ Len(data) = batch_size
         /\ Len(label) = batch_size
         /\ \A k \in 1..batch_size :
              /\ data[k] = X[yielded[i + 1][k]]
              /\ label[k] = y[yielded[i + 1][k]]

\* a second pass has been completed under an order that is not the dataset's
ExactlyOnceCoverageWitness ==
    /\ PassOver
    /\ e = 1
    /\ Len(yielded) = NumBatches
    /\ idx # [k \in 1..NumData |-> k]

\* C2: a call of net while its parameters are uninitialized gives the
\* RuntimeError and no prediction, a call after initialization gives a
\* prediction; and the script initializes the parameters before the training
\* loop calls net, so the loop never raises the error.
UninitializedFault ==
    /\ (probe.called /\ ~probe.init) => (probe.error /\ probe.yhat = <<>>)
    /\ (probe.called /\ probe.init) => (~probe.error /\ Len(probe.yhat) = 1)
    /\ pc \in LoopStmts => initialized
    /\ pc # "RuntimeError"
    /\ pc \in (BodyStmts \ {"forward"}) => Len(output) = batch_size

\* net was called before initialization, raised, and the script then ran
\* to its end without the error
UninitializedFaultWitness ==
    /\ probe.called
    /\ ~probe.init
    /\ probe.error
    /\ pc = "done"

\* the order of the statements of the training loop
LoopOrder ==
    { <<"for_e", "moving_loss_0">>, <<"moving_loss_0", "reset">>,
      <<"reset", "enumerate">>, <<"enumerate", "for_i">>,
      <<"for_i", "forward">>, <<"forward", "mse">>, <<"mse", "backward">>,
      <<"backward", "step">>, <<"step", "moving_loss">>,
      <<"moving_loss", "print">>, <<"print", "for_i">>,
      <<"for_i", "for_e">>, <<"for_e", "done">> }

\* C3: in every epoch the iterator is reset before a batch is fetched, and
\* for every batch the steps run in the order predictions, loss, gradients,
\* optimizer update, moving-loss update, print (if due), each once; the next
\* batch is fetched only after the print step of the previous one.
TrainingStepOrder ==
    [][ /\ (pc \in LoopStmts /\ pc' # pc) => <<pc, pc'>> \in LoopOrder
        /\ pc' = "forward" => (pc = "for_i" /\ cursor' = batch_size * i')
        /\ pc' = "for_i" => pc \in {"enumerate", "print"}
        /\ pc' = "enumerate" => (pc = "reset" /\ cursor' = -batch_size)
        /\ output' # output => pc = "forward"
        /\ mse' # mse => pc = "mse"
        /\ grad' # grad => pc = "backward"
        /\ steps' # steps => pc = "step"
        /\ moving_loss' # moving_loss => pc \in {"moving_loss_0", "moving_loss"}
        /\ printed' # printed => pc = "print"
        /\ i' # i => pc = "for_i"
      ]_vars

\* the last batch of the last epoch has gone through every step
TrainingStepOrderWitness ==
    /\ pc = "for_i"
    /\ e = epochs - 1
    /\ i = NumBatches - 1
    /\ steps = epochs * NumBatches

\* C4: the training loop reaches its terminal state; it is there exactly
\* after epochs * NumBatches optimizer updates, and after the last batch of
\* the last epoch no batch is processed and neither the parameters nor the
\* moving loss change.
Termination ==
    /\ <>(pc = "done")
    /\ [](pc = "done" => (steps = epochs * NumBatches /\ e = epochs - 1))
    /\ [][ (steps = epochs * NumBatches /\ pc \in {"print", "for_i", "for_e", "done"})
             => (w' = w /\ b' = b /\ moving_loss' = moving_loss
                 /\ steps' = steps /\ i' = i /\ pc' \notin BodyStmts \ {"print"}) ]_vars

\* the terminal state, with all the updates done
TerminationWitness ==
    /\ pc = "done"
    /\ steps = epochs * NumBatches
    /\ w # <<0, 0>>

\* C5 as stated: the moving loss is zeroed once, at the start, and every
\* later change to it is a per-batch update, so the value after the first
\* batch of a later epoch derives from the last value of the epoch before.
MovingLossZeroedOnce ==
    [][ /\ moving_loss' # moving_loss => (pc = "moving_loss" \/ e = 0)
        /\ pc = "moving_loss" => moving_loss' = Div(99 * moving_loss + SumSeq(mse), 100)
      ]_vars

\* C5 as amended: the moving loss is set to zero at the start of every
\* epoch, before the iterator is reset; every other change to it is a
\* per-batch update; its value after the first batch of every epoch derives
\* from zero, not from the last value of the epoch before.
MovingLossZeroedEachEpoch ==
    [][ /\ pc = "moving_loss_0" => (moving_loss' = 0 /\ pc' = "reset")
        /\ pc' = "moving_loss_0" => (pc = "for_e" /\ e' = e + 1)
        /\ moving_loss' # moving_loss => pc \in {"moving_loss_0", "moving_loss"}
        /\ (pc = "moving_loss" /\ i = 0) => moving_loss' = Div(SumSeq(mse), 100)
      ]_vars

\* the first batch of the second epoch is done, and the first epoch had
\* left a moving loss above zero
MovingLossZeroedEachEpochWitness ==
    /\ pc = "print"
    /\ e = 1
    /\ i = 0
    /\ Len(printed) > 0
    /\ printed[Len(printed)][1] = 0
    /\ printed[Len(printed)][3] > 0
    /\ moving_loss # Div(99 * printed[Len(printed)][3] + SumSeq(mse), 100)

\* C6: after every batch the new moving loss is 0.99 times the previous one
\* plus 0.01 times the sum, not the mean, of the batch's per-example losses;
\* the losses are those of the forward pass made before the optimizer update
\* of that batch; the update runs once per batch.
MovingLossUpdateRule ==
    [][ /\ pc = "moving_loss" =>
             /\ moving_loss' = Div(99 * moving_loss + 1 * SumSeq(mse), 100)
             /\ Len(mse) = batch_size
             /\ pc' = "print"
        /\ pc = "step" =>
             /\ \A k \in 1..batch_size :
                  mse[k] = L2Loss(data[k][1] * w[1] + data[k][2] * w[2] + b, label[k])
             /\ mse' = mse
        /\ (pc \in BodyStmts /\ pc' = "moving_loss") => pc = "step"
      ]_vars

\* an update after the first batch, on losses that are not all equal
MovingLossUpdateRuleWitness ==
    /\ pc = "print"
    /\ i > 0
    /\ moving_loss > 0
    /\ \E k \in 1..batch_size : mse[k] # mse[1]
    /\ SumSeq(mse) \div batch_size # SumSeq(mse)

\* C7: an optimizer step replaces both weights and the bias by
\* param - 0.1 * gradient / batchSize, batchSize being the number of rows of
\* the current batch; the result depends on the parameters, the gradients,
\* the learning rate and the batch size only, and the step changes nothing
\* else that a later step reads.
OptimizerUpdateRule ==
    [][ pc = "step" =>
          /\ Len(data) = batch_size
          /\ w' = << w[1] - Div(grad.w[1], 10 * batch_size),
                     w[2] - Div(grad.w[2], 10 * batch_size) >>
          /\ b' = b - Div(grad.b, 10 * batch_size)
          /\ grad' = grad
          /\ initialized' = initialized
      ]_vars

\* a step has changed both weights and the bias
OptimizerUpdateRuleWitness ==
    /\ pc = "moving_loss"
    /\ steps > 1
    /\ Div(grad.w[1], 10 * batch_size) # 0
    /\ Div(grad.w[2], 10 * batch_size) # 0
    /\ Div(grad.b, 10 * batch_size) # 0

\* the loss values belong to the current output and label
LossComputed ==
    pc \in {"backward", "step", "moving_loss", "print"}

PrintsPerEpoch ==
    (NumBatches + PrintEvery - 1) \div PrintEvery

\* batches of the current epoch whose print statement has run
BatchesPrinted ==
    CASE pc \in BodyStmts -> i
      [] pc = "for_i" -> count
      [] pc \in {"for_e", "done"} /\ e >= 0 -> NumBatches
      [] OTHER -> 0

\* C9: a line is printed for a batch exactly when its zero-based index in
\* the epoch is a multiple of PrintEvery; the index starts at 0 in every
\* epoch; the line carries the epoch, the index and the moving loss as
\* updated for that batch; so the lines are those of batches 0, PrintEvery,
\* 2 PrintEvery, ... of each epoch in increasing (epoch, batch) order,
\* epochs * PrintsPerEpoch in all.
ProgressEmission ==
    /\ Len(printed) = (IF e < 0 THEN 0 ELSE e) * PrintsPerEpoch
                        + (BatchesPrinted + PrintEvery - 1) \div PrintEvery
    /\ \A k \in 1..Len(printed) :
         /\ printed[k][1] = (k - 1) \div PrintsPerEpoch
         /\ printed[k][2] = ((k - 1) % PrintsPerEpoch) * PrintEvery
         /\ printed[k][2] % PrintEvery = 0
    /\ (pc = "for_i" /\ count > 0 /\ (count - 1) % PrintEvery = 0) =>
         printed[Len(printed)] = <<e, count - 1, moving_loss>>
    /\ (pc = "forward" /\ cursor = 0) => i = 0
    /\ pc = "done" => Len(printed) = epochs * PrintsPerEpoch

\* the run is over, a line was printed for a batch other than the first,
\* and a batch went without a line
ProgressEmissionWitness ==
    /\ pc = "done"
    /\ Len(printed) = epochs * PrintsPerEpoch
    /\ \E k \in 1..Len(printed) : printed[k][2] > 0
    /\ Len(printed) < epochs * NumBatches

\* C10: no step changes the dataset once it is generated; the parameters
\* change only in the optimizer step (and when they are initialized); the
\* moving loss changes only in its update and in the zeroing assignment.
FrameConditions ==
    [][ /\ pc # "X_y" => (X' = X /\ y' = y)
        /\ (w' # w \/ b' # b) => pc \in {"initialize", "step"}
        /\ pc \in (LoopStmts \ {"step"}) => (w' = w /\ b' = b)
        /\ moving_loss' # moving_loss => pc \in {"moving_loss_0", "moving_loss"}
        /\ pc \in {"step", "forward", "mse", "backward"} => moving_loss' = moving_loss
      ]_vars

\* training is over: the dataset is in place and the parameters have moved
FrameConditionsWitness ==
    /\ pc = "done"
    /\ Len(X) = NumData
    /\ Len(y) = NumData
    /\ steps = epochs * NumBatches
    /\ moving_loss > 0

===========================================================================
